---- MODULE Spec2Model ----
(***************************************************************************)
(* The audio/visual synchronisation scheduler of the client (App: the PCM  *)
(* playback timeline, the visual command queue and its scheduling) and the *)
(* staged-reveal state machine of CanvasBoard (pagination, reveal timers,  *)
(* Back/Next navigation).                                                  *)
(*                                                                         *)
(* The repository holds two versions of App.  Both are modelled; the       *)
(* variable app, fixed in Init, says which one runs:                       *)
(*   "v1"  src/unnamed/part_001 lines 346-618 (visuals realised by timers) *)
(*   "v2"  src/unnamed/part_001 lines 637-1006 (visuals realised inline)   *)
(*                                                                         *)
(* Times are integers in milliseconds.  now is AudioContext.currentTime;   *)
(* setTimeout delays are measured on the same clock.  Every handler runs   *)
(* to completion (single-threaded event loop), so one action is one        *)
(* handler together with the React render and effects it causes.           *)
(***************************************************************************)
EXTENDS Integers, Sequences, FiniteSets, TLC

\* ---------------------------------------------------------------- bounds
MaxEvents == 3      \* socket events (commands, chunks, disconnects) of a run of Spec
MaxBurst  == 4      \* socket events of a run of SpecApp
MaxOffers == 3      \* visual commands among them
MaxChunks == 2      \* audio chunks among them
MaxResets == 1      \* disconnects among them
MaxSteps  == 7      \* longest step list of SpecPaginate
MaxMalformed == 2   \* chunks that fail to decode in a run of SpecDecode
MaxLiveSteps == 4   \* longest step list of SpecLive
MaxPairSteps == 4   \* longest step list of SpecPair
MaxSamples == 3     \* samples of the function in a run of SpecGraph
MaxStatuses == 3    \* status messages emitted by a bridge in a run of SpecBridge
MaxMicStarts == 3   \* startRecording calls in a run of SpecMic
MaxAudioInputs == 2 \* 'audio-input' messages emitted in a run of SpecMic
MaxFrames == 2      \* resolution of the progress of the graph animation

\* ------------------------------------------------------ program constants
BUFFER_LOOKAHEAD == 200     \* 0.2 s
STEPS_PER_PAGE   == 3
sampleRate       == 24000
TokenRetries     == 3         \* let retries = 3

null == 0 - 1               \* a ref holding null (times are never negative)

Min(a, b) == IF a < b THEN a ELSE b
Max(a, b) == IF a > b THEN a ELSE b
Range(s)  == { s[i] : i \in 1..Len(s) }

\* ----------------------------------------------------------------- inputs
\* A step's text is represented by its length in characters, the only thing
\* the scheduler reads of it.
NoCmd == [type |-> "none", steps |-> <<>>]
Shape == [type |-> "DRAW_SHAPE", steps |-> <<>>]
Graph == [type |-> "DRAW_GRAPH", steps |-> <<>>]
Text  == [type |-> "DRAW_TEXT", steps |-> <<>>]
SeqA  == [type |-> "ANIMATE_SEQUENCE", steps |-> <<8, 8, 8, 8>>]
Cmds  == {Shape, Graph, Text, SeqA}
SimpleCmds == {Shape, Graph, Text}

\* sample counts of the PCM chunks received (2400 samples = 100 ms)
SampleCounts == {2400, 7200}

VARIABLES
    app,                    \* which App runs: "v1" or "v2"
    now,                    \* ctx.currentTime, ms
    isConnected,
    audioCtxRef,            \* TRUE once the AudioContext exists
    nextTimeRef,
    audioStartTimeRef,      \* null or the start of the first chunk
    visualCommandQueueRef,  \* sequence of [id, cmd]
    drawVisualCommandRef,   \* TRUE once CanvasBoard registered drawCommand
    timers,                 \* pending setTimeout callbacks, in creation order
    activeCommand,          \* the command drawCommand was last called with
    slides,                 \* pages; a page is a sequence of [content, visible]
    currentSlideIndex,      \* 0-based
    isAnimating,
    controls,               \* Back/Next buttons in the overlay and the values they captured
    offered,                \* history: number of visual commands received
    sched,                  \* history: per command id, how it was last handled
    realized,               \* history: ids passed to drawCommand, in call order
    dropped,                \* history: ids that were in the queue at a disconnect
    starts,                 \* history: [start, dur] of every source.start
    resets,                 \* history: number of disconnects
    malformed,              \* history: for every chunk that failed to decode, the
                            \* number of chunks started before it
    graph,                  \* drawGraph: the samples of the function, the points kept
                            \* and the line segments on the canvas
    bridge,                 \* GeminiLiveBridge: where connect() stands, its locals, the
                            \* session, and what it has emitted to the client
    mic                     \* useAudioStream: its state and refs, the getUserMedia calls
                            \* in flight and the captures that are running

\* no graph has been drawn
NoGraph == [phase |-> "none", samples |-> <<>>, animated |-> FALSE,
            points |-> <<>>, frame |-> 0, segments |-> <<>>]

\* the bridge as its constructor leaves it
NoBridge == [pc |-> "idle", retries |-> 0, tokenResult |-> "none", session |-> FALSE,
             attempts |-> <<>>, liveCalls |-> 0, statuses |-> <<>>]

\* the hook before the first click
NoMic == [isRecording |-> FALSE, isRecordingRef |-> FALSE, streamRef |-> 0,
          processorRef |-> 0, calls |-> 0, pending |-> {}, running |-> {},
          stopped |-> FALSE, emitted |-> 0]

vars == <<app, now, isConnected, audioCtxRef, nextTimeRef,
          audioStartTimeRef, visualCommandQueueRef, drawVisualCommandRef,
          timers, activeCommand, slides, currentSlideIndex, isAnimating, controls,
          offered, sched, realized, dropped, starts, resets, malformed, graph, bridge, mic>>

\* the variables of App and of CanvasBoard's pagination
clientVars == <<app, now, isConnected, audioCtxRef, nextTimeRef,
                audioStartTimeRef, visualCommandQueueRef, drawVisualCommandRef,
                timers, activeCommand, slides, currentSlideIndex, isAnimating, controls,
                offered, sched, realized, dropped, starts, resets, malformed>>
\* the variables of the other components
auxVars    == <<graph, bridge, mic>>
audioVars  == <<audioCtxRef, nextTimeRef, audioStartTimeRef, starts>>
boardVars  == <<timers, activeCommand, slides, currentSlideIndex, isAnimating,
                controls, realized>>

Events == offered + Len(starts) + resets

NoControls == [shown |-> FALSE, idx |-> 0, len |-> 0]

\* ------------------------------------------------------------ CanvasBoard
\* The board state a handler works on, as one record.
Board == [activeCommand |-> activeCommand, slides |-> slides,
          currentSlideIndex |-> currentSlideIndex,
          isAnimating |-> isAnimating, controls |-> controls,
          timers |-> timers, realized |-> realized]

SetBoard(b) ==
    /\ activeCommand' = b.activeCommand
    /\ slides' = b.slides
    /\ currentSlideIndex' = b.currentSlideIndex
    /\ isAnimating' = b.isAnimating
    /\ controls' = b.controls
    /\ timers' = b.timers
    /\ realized' = b.realized

\* mutant of SliceSteps: the slice ends one step early
SliceStepsShort(steps, i) ==
    [j \in 1..(Min(i + STEPS_PER_PAGE - 1, Len(steps)) - i) |->
        [content |-> steps[i + j], visible |-> FALSE]]

\* steps.slice(i, i + STEPS_PER_PAGE).map(s => ({content: s, visible: false}))
SliceSteps(steps, i) ==
    [j \in 1..(Min(i + STEPS_PER_PAGE, Len(steps)) - i) |->
        [content |-> steps[i + j], visible |-> FALSE]]

\* for (let i = 0; i < steps.length; i += STEPS_PER_PAGE) newSlides.push(chunk)
RECURSIVE Paginate(_, _)
Paginate(steps, i) ==
    IF i < Len(steps)
    THEN <<SliceSteps(steps, i)>> \o Paginate(steps, i + STEPS_PER_PAGE)
    ELSE <<>>

\* mutant of readingTime: the figures of the write-up
readingTimeWriteUp(len) == Max(1500, len * 40)

\* mutant of readingTime: the length of the step is ignored
readingTimeFlat(len) == Max(400, 0)

readingTime(len) == Max(400, len * 25)

\* steps.forEach: one reveal timer per step at the running cumulativeDelay
RECURSIVE RevealTimers(_, _, _, _)
RevealTimers(steps, i, cumulativeDelay, gen) ==
    IF i < Len(steps)
    THEN <<[kind |-> "reveal", due |-> now + cumulativeDelay,
            pageIndex |-> i \div STEPS_PER_PAGE,
            stepIndexInPage |-> i % STEPS_PER_PAGE,
            q |-> [id |-> 0, cmd |-> NoCmd], gen |-> gen]>>
         \o RevealTimers(steps, i + 1, cumulativeDelay + readingTime(steps[i + 1]), gen)
    ELSE <<>>

\* the value of cumulativeDelay after the forEach
RECURSIVE FinalDelay(_, _, _)
FinalDelay(steps, i, cumulativeDelay) ==
    IF i < Len(steps)
    THEN FinalDelay(steps, i + 1, cumulativeDelay + readingTime(steps[i + 1]))
    ELSE cumulativeDelay

\* mutant of EndTimer: no grace period after the last step's reading time
EndTimerNoGrace(steps, gen) ==
    [kind |-> "end", due |-> now + FinalDelay(steps, 0, 300),
     pageIndex |-> 0, stepIndexInPage |-> 0,
     q |-> [id |-> 0, cmd |-> NoCmd], gen |-> gen]

EndTimer(steps, gen) ==
    [kind |-> "end", due |-> now + FinalDelay(steps, 0, 300) + 1000,
     pageIndex |-> 0, stepIndexInPage |-> 0,
     q |-> [id |-> 0, cmd |-> NoCmd], gen |-> gen]

\* mutant of drawCommand: a new sequence keeps the page index of the old one
drawCommandKeepsPage(b, q) ==
    LET gen == Len(b.realized) + 1
        b1  == [b EXCEPT !.realized = Append(@, q.id), !.activeCommand = q.cmd]
    IN  IF q.cmd.type = "ANIMATE_SEQUENCE"
        THEN [b1 EXCEPT !.slides = Paginate(q.cmd.steps, 0),
                        !.isAnimating = TRUE,
                        !.controls = NoControls,
                        !.timers = @ \o RevealTimers(q.cmd.steps, 0, 300, gen)
                                     \o <<EndTimer(q.cmd.steps, gen)>>]
        ELSE IF q.cmd.type \in {"DRAW_GRAPH", "DRAW_SHAPE", "DRAW_TEXT"}
        THEN [b1 EXCEPT !.slides = <<>>]
        ELSE b1

\* drawCommand(cmd): the synchronous part.  gen, the number of commands
\* drawn so far, tags the timers of this call (history only).
drawCommand(b, q) ==
    LET gen == Len(b.realized) + 1
        b1  == [b EXCEPT !.realized = Append(@, q.id), !.activeCommand = q.cmd]
    IN  IF q.cmd.type = "ANIMATE_SEQUENCE"
        THEN [b1 EXCEPT !.slides = Paginate(q.cmd.steps, 0),
                        !.currentSlideIndex = 0,
                        !.isAnimating = TRUE,
                        !.controls = NoControls,     \* overlay.innerHTML = ''
                        !.timers = @ \o RevealTimers(q.cmd.steps, 0, 300, gen)
                                     \o <<EndTimer(q.cmd.steps, gen)>>]
        ELSE IF q.cmd.type \in {"DRAW_GRAPH", "DRAW_SHAPE", "DRAW_TEXT"}
        THEN [b1 EXCEPT !.slides = <<>>]
        ELSE b1

\* the pagination-overlay effect, run after a render that changed
\* slides or currentSlideIndex
OverlayEffect(b) ==
    IF Len(b.slides) = 0
    THEN b
    ELSE [b EXCEPT !.controls =
            IF Len(b.slides) > 1
            THEN [shown |-> TRUE, idx |-> b.currentSlideIndex, len |-> Len(b.slides)]
            ELSE NoControls]

\* commands.forEach(q => drawCommand(q.cmd))
RECURSIVE DrawAll(_, _)
DrawAll(b, qs) ==
    IF qs = <<>> THEN b ELSE DrawAll(drawCommand(b, Head(qs)), Tail(qs))

\* -------------------------------------------------------------------- App
VisualTimer(q, msDelay) ==
    [kind |-> "visual", due |-> now + msDelay, pageIndex |-> 0,
     stepIndexInPage |-> 0, q |-> q, gen |-> 0]

\* mutant of StaggerDelay: no stagger
StaggerDelayFlat(index, start) ==
    LET delaySeconds == 800
        scheduleTime == start + delaySeconds
    IN  Max(0, scheduleTime - now)

\* mutant of StaggerDelay: the stagger shrinks with the index
StaggerDelayReversed(index, start) ==
    LET delaySeconds == 800 - index * 300
        scheduleTime == start + delaySeconds
    IN  Max(0, scheduleTime - now)

\* v1 flush: the timer delay of the command at position index of the snapshot
StaggerDelay(index, start) ==
    LET delaySeconds == 800 + index * 300
        scheduleTime == start + delaySeconds
    IN  Max(0, scheduleTime - now)

\* v1 commandsToSchedule.forEach((queued, index) => setTimeout(draw, msDelay))
RECURSIVE StaggerTimers(_, _, _)
StaggerTimers(qs, index, start) ==
    IF index < Len(qs)
    THEN <<VisualTimer(qs[index + 1], StaggerDelay(index, start))>>
         \o StaggerTimers(qs, index + 1, start)
    ELSE <<>>

\* history: the commands of qs are marked as handled by `via`, with the
\* delay of their timer (0 when drawn inline)
Mark(sc, qs, via, batch, start) ==
    [id \in 1..Len(sc) |->
        IF \E i \in 1..Len(qs) : qs[i].id = id
        THEN LET i == CHOOSE i \in 1..Len(qs) : qs[i].id = id
             IN  [via |-> via, batch |-> batch, index |-> i - 1,
                  delay |-> IF via = "flush" /\ app = "v1"
                            THEN StaggerDelay(i - 1, start) ELSE 0]
        ELSE sc[id]]

\* mutant of processVisualCommandQueue: only the head of the queue is taken
processVisualCommandQueueFirst(b, start, ctx, qs, sc, batch) ==
    IF start = null \/ Len(qs) = 0
    THEN [board |-> b, queue |-> qs, sched |-> sc]
    ELSE IF app = "v1"
    THEN IF ~ctx
         THEN [board |-> b, queue |-> qs, sched |-> sc]
         ELSE [board |-> [b EXCEPT !.timers = @ \o StaggerTimers(<<Head(qs)>>, 0, start)],
               queue |-> Tail(qs), sched |-> Mark(sc, <<Head(qs)>>, "flush", batch, start)]
    ELSE IF ~drawVisualCommandRef
         THEN [board |-> b, queue |-> qs, sched |-> sc]
         ELSE [board |-> DrawAll(b, <<Head(qs)>>), queue |-> Tail(qs),
               sched |-> Mark(sc, <<Head(qs)>>, "flush", batch, start)]

\* mutant of processVisualCommandQueue: the queue is not cleared
processVisualCommandQueueKeeps(b, start, ctx, qs, sc, batch) ==
    IF start = null \/ Len(qs) = 0
    THEN [board |-> b, queue |-> qs, sched |-> sc]
    ELSE IF app = "v1"
    THEN IF ~ctx
         THEN [board |-> b, queue |-> qs, sched |-> sc]
         ELSE [board |-> [b EXCEPT !.timers = @ \o StaggerTimers(qs, 0, start)],
               queue |-> qs, sched |-> Mark(sc, qs, "flush", batch, start)]
    ELSE IF ~drawVisualCommandRef
         THEN [board |-> b, queue |-> qs, sched |-> sc]
         ELSE [board |-> DrawAll(b, qs), queue |-> qs,
               sched |-> Mark(sc, qs, "flush", batch, start)]

\* processVisualCommandQueue, given the refs as the caller left them;
\* yields the board and the queue it leaves
processVisualCommandQueue(b, start, ctx, qs, sc, batch) ==
    IF start = null \/ Len(qs) = 0
    THEN [board |-> b, queue |-> qs, sched |-> sc]
    ELSE IF app = "v1"
    THEN IF ~ctx
         THEN [board |-> b, queue |-> qs, sched |-> sc]
         ELSE [board |-> [b EXCEPT !.timers = @ \o StaggerTimers(qs, 0, start)],
               queue |-> <<>>, sched |-> Mark(sc, qs, "flush", batch, start)]
    ELSE IF ~drawVisualCommandRef
         THEN [board |-> b, queue |-> qs, sched |-> sc]
         ELSE [board |-> DrawAll(b, qs), queue |-> <<>>,
               sched |-> Mark(sc, qs, "flush", batch, start)]

\* the onDrawCommand prop of <CanvasBoard>, called by CanvasBoard's effect
\* whenever App renders (the prop is a new closure on every render)
onDrawCommand(b, qs, sc) ==
    IF app = "v2" /\ Len(qs) > 0
    THEN [board |-> DrawAll(b, qs), queue |-> <<>>,
          sched |-> Mark(sc, qs, "register", 0, 0)]
    ELSE [board |-> b, queue |-> qs, sched |-> sc]

\* an App render: CanvasBoard's effect calls onDrawCommand(drawCommand)
Render ==
    LET r == onDrawCommand(Board, visualCommandQueueRef, sched)
    IN  /\ drawVisualCommandRef' = TRUE
        /\ SetBoard(OverlayEffect(r.board))
        /\ visualCommandQueueRef' = r.queue
        /\ sched' = r.sched

\* first render: CanvasBoard's effect registers drawCommand; the socket
\* listeners are attached by App's effect, which runs after it
Mount ==
    /\ ~drawVisualCommandRef
    /\ Render
    /\ UNCHANGED <<auxVars, app, now, isConnected, audioVars, offered, dropped, resets, malformed>>

\* socket.on('connect')
Connect ==
    /\ drawVisualCommandRef
    /\ ~isConnected
    /\ isConnected' = TRUE
    /\ Render
    /\ UNCHANGED <<auxVars, app, now, audioVars, offered, dropped, resets, malformed>>

\* mutant of Disconnect: the queue is not cleared
DisconnectKeepsQueue ==
    /\ drawVisualCommandRef
    /\ isConnected
    /\ isConnected' = FALSE
    /\ audioStartTimeRef' = null
    /\ dropped' = dropped \cup { visualCommandQueueRef[i].id : i \in 1..Len(visualCommandQueueRef) }
    /\ resets' = resets + 1
    /\ UNCHANGED <<auxVars, app, now, audioCtxRef, nextTimeRef, starts, drawVisualCommandRef,
                   boardVars, offered, sched, visualCommandQueueRef, malformed>>

\* socket.on('disconnect')
Disconnect ==
    /\ drawVisualCommandRef
    /\ isConnected
    /\ isConnected' = FALSE
    /\ audioStartTimeRef' = null
    /\ visualCommandQueueRef' = <<>>
    /\ dropped' = dropped \cup { visualCommandQueueRef[i].id : i \in 1..Len(visualCommandQueueRef) }
    /\ resets' = resets + 1
    /\ UNCHANGED <<auxVars, app, now, audioCtxRef, nextTimeRef, starts, drawVisualCommandRef,
                   boardVars, offered, sched, malformed>>

\* socket.on('status') with a message other than the one shown:
\* setStatusMsg re-renders App
Status ==
    /\ drawVisualCommandRef
    /\ isConnected
    /\ Render
    /\ UNCHANGED <<auxVars, app, now, isConnected, audioVars, offered, dropped, resets, malformed>>

chunkDuration(samples) == (samples * 1000) \div sampleRate

\* the cushion added when the timeline is moved to the clock: v1 moves it to
\* currentTime itself, v2 to currentTime + BUFFER_LOOKAHEAD
lookaheadOffset == IF app = "v1" THEN 0 ELSE BUFFER_LOOKAHEAD

\* mutant of CatchUp: every chunk is started 10 ms after the timeline
CatchUpGap(next) ==
    IF app = "v1"
    THEN (IF next < now THEN now ELSE next) + 10
    ELSE LET init == IF next = 0 THEN now + BUFFER_LOOKAHEAD ELSE next
         IN  (IF init < now THEN now + BUFFER_LOOKAHEAD ELSE init) + 10

\* mutant of CatchUp: a timeline that fell behind the clock is left there
CatchUpNever(next) ==
    IF app = "v1"
    THEN next
    ELSE IF next = 0 THEN now + BUFFER_LOOKAHEAD ELSE next

\* mutant of CatchUp: the timeline is moved to the clock on every chunk
CatchUpAlways(next) ==
    IF app = "v1" THEN now ELSE now + BUFFER_LOOKAHEAD

\* nextTimeRef after the catch-up tests of playPcmChunk
CatchUp(next) ==
    IF app = "v1"
    THEN IF next < now THEN now ELSE next
    ELSE LET init == IF next = 0 THEN now + BUFFER_LOOKAHEAD ELSE next
         IN  IF init < now THEN now + BUFFER_LOOKAHEAD ELSE init

\* socket.on('audio-output') -> playPcmChunk, for a well-formed chunk
playPcmChunk(samples) ==
    /\ drawVisualCommandRef
    /\ isConnected
    /\ LET startAt == CatchUp(nextTimeRef)
           first   == IF audioStartTimeRef = null THEN startAt ELSE audioStartTimeRef
           r       == processVisualCommandQueue(Board, first, TRUE, visualCommandQueueRef,
                                                sched, Len(starts) + 1)
       IN  /\ audioCtxRef' = TRUE
           /\ audioStartTimeRef' = first
           /\ starts' = Append(starts, [start |-> startAt, dur |-> chunkDuration(samples)])
           /\ nextTimeRef' = startAt + chunkDuration(samples)
           /\ SetBoard(OverlayEffect(r.board))
           /\ visualCommandQueueRef' = r.queue
           /\ sched' = r.sched
    /\ UNCHANGED <<auxVars, app, now, isConnected, drawVisualCommandRef, offered, dropped, resets, malformed>>

\* A chunk as it arrives: whether the string is valid base64 and the number
\* of bytes it decodes to.
Payloads ==
    { [base64 |-> FALSE, bytes |-> 0],     \* not base64
      [base64 |-> TRUE, bytes |-> 4801],   \* odd byte count
      [base64 |-> TRUE, bytes |-> 0],      \* empty
      [base64 |-> TRUE, bytes |-> 4800],
      [base64 |-> TRUE, bytes |-> 14400] }

\* int16.length
sampleCount(p) == p.bytes \div 2

\* the decoding completes: window.atob throws on a string that is not base64,
\* new Int16Array(bytes.buffer) on an odd byte length, ctx.createBuffer on a
\* length of 0 frames
Decodes(p) ==
    /\ p.base64
    /\ p.bytes % 2 = 0
    /\ sampleCount(p) > 0

\* mutant of playPcmChunkThrows: the timeline is set up before the decoding
playPcmChunkThrowsLate(p) ==
    /\ drawVisualCommandRef
    /\ isConnected
    /\ ~Decodes(p)
    /\ audioCtxRef' = TRUE
    /\ nextTimeRef' = CatchUp(nextTimeRef)
    /\ audioStartTimeRef' = IF audioStartTimeRef = null THEN CatchUp(nextTimeRef)
                            ELSE audioStartTimeRef
    /\ malformed' = malformed \cup {Len(starts)}
    /\ UNCHANGED <<auxVars, app, now, isConnected, starts,
                   visualCommandQueueRef, drawVisualCommandRef, boardVars,
                   offered, sched, dropped, resets>>

\* socket.on('audio-output') -> playPcmChunk, for a chunk that fails to
\* decode: initAudioOutput has run, then the exception leaves the handler
playPcmChunkThrows(p) ==
    /\ drawVisualCommandRef
    /\ isConnected
    /\ ~Decodes(p)
    /\ audioCtxRef' = TRUE
    /\ malformed' = malformed \cup {Len(starts)}
    /\ UNCHANGED <<auxVars, app, now, isConnected, nextTimeRef, audioStartTimeRef, starts,
                   visualCommandQueueRef, drawVisualCommandRef, boardVars,
                   offered, sched, dropped, resets>>

\* mutant of delaySeconds: the default delay, whatever the audio elapsed
delaySecondsDefault(audioElapsed) ==
    IF audioElapsed < 500 THEN 800
    ELSE IF audioElapsed < 2000 THEN 800
    ELSE 800

\* mutant of delaySeconds: no delay while the audio has just started
delaySecondsNone(audioElapsed) ==
    IF audioElapsed < 500 THEN 0
    ELSE IF audioElapsed < 2000 THEN 500
    ELSE 800

\* v1 delay heuristic of scheduleVisualCommand
delaySeconds(audioElapsed) ==
    IF audioElapsed < 500 THEN 1000
    ELSE IF audioElapsed < 2000 THEN 500
    ELSE 800

\* v1: msDelay of a command offered while audio plays
OfferDelay ==
    LET scheduleTime == now + delaySeconds(now - audioStartTimeRef)
    IN  Max(0, scheduleTime - now)

\* socket.on('visual-command') -> scheduleVisualCommand
scheduleVisualCommand(cmd) ==
    /\ drawVisualCommandRef
    /\ isConnected
    /\ offered' = offered + 1
    /\ LET q == [id |-> offered + 1, cmd |-> cmd]
       IN  IF (app = "v1" /\ ~audioCtxRef) \/ audioStartTimeRef = null
           THEN /\ visualCommandQueueRef' = Append(visualCommandQueueRef, q)
                /\ sched' = Append(sched, [via |-> "queue", batch |-> 0, index |-> 0, delay |-> 0])
                /\ UNCHANGED boardVars
           ELSE IF app = "v1"
           THEN /\ timers' = Append(timers, VisualTimer(q, OfferDelay))
                /\ sched' = Append(sched, [via |-> "offer", batch |-> 0, index |-> 0,
                                           delay |-> OfferDelay])
                /\ UNCHANGED <<activeCommand, slides, currentSlideIndex, isAnimating,
                               controls, realized, visualCommandQueueRef>>
           ELSE /\ IF drawVisualCommandRef
                   THEN SetBoard(OverlayEffect(drawCommand(Board, q)))
                   ELSE UNCHANGED boardVars
                /\ sched' = Append(sched, [via |-> "offer", batch |-> 0, index |-> 0, delay |-> 0])
                /\ UNCHANGED visualCommandQueueRef
    /\ UNCHANGED <<auxVars, app, now, isConnected, audioVars, drawVisualCommandRef, dropped, resets, malformed>>

\* ------------------------------------------------------------------ timers
\* the pending timer that fires next: earliest due, then earliest created
NextTimer ==
    CHOOSE i \in 1..Len(timers) :
        \A j \in 1..Len(timers) :
            \/ timers[i].due < timers[j].due
            \/ (timers[i].due = timers[j].due /\ i <= j)

Remove(s, i) == SubSeq(s, 1, i - 1) \o SubSeq(s, i + 1, Len(s))

TimerDue(kind) ==
    /\ Len(timers) > 0
    /\ timers[NextTimer].due <= now
    /\ timers[NextTimer].kind = kind

\* mutant of RevealStep: a step is revealed only if its page is the one shown
RevealStepIfShown ==
    /\ TimerDue("reveal")
    /\ LET t == timers[NextTimer]
           p == t.pageIndex + 1
           s == t.stepIndexInPage + 1
           shown == IF t.stepIndexInPage = 0 THEN t.pageIndex ELSE currentSlideIndex
           b == [Board EXCEPT
                   !.timers = Remove(timers, NextTimer),
                   !.currentSlideIndex = shown,
                   !.slides = IF p <= Len(slides) /\ s <= Len(slides[p]) /\ shown = t.pageIndex
                              THEN [slides EXCEPT ![p][s].visible = TRUE]
                              ELSE slides]
       IN  SetBoard(OverlayEffect(b))
    /\ UNCHANGED <<auxVars, app, now, isConnected, audioVars, visualCommandQueueRef,
                   drawVisualCommandRef, offered, sched, dropped, resets, malformed>>

\* mutant of RevealStep: the copy of the pages forgets the other flags
RevealStepHidesOthers ==
    /\ TimerDue("reveal")
    /\ LET t == timers[NextTimer]
           p == t.pageIndex + 1
           s == t.stepIndexInPage + 1
           hidden == [i \in 1..Len(slides) |->
                        [j \in 1..Len(slides[i]) |-> [slides[i][j] EXCEPT !.visible = FALSE]]]
           b == [Board EXCEPT
                   !.timers = Remove(timers, NextTimer),
                   !.currentSlideIndex = IF t.stepIndexInPage = 0 THEN t.pageIndex ELSE @,
                   !.slides = IF p <= Len(slides) /\ s <= Len(slides[p])
                              THEN [hidden EXCEPT ![p][s].visible = TRUE]
                              ELSE hidden]
       IN  SetBoard(OverlayEffect(b))
    /\ UNCHANGED <<auxVars, app, now, isConnected, audioVars, visualCommandQueueRef,
                   drawVisualCommandRef, offered, sched, dropped, resets, malformed>>

\* the setTimeout callback of one step
RevealStep ==
    /\ TimerDue("reveal")
    /\ LET t == timers[NextTimer]
           p == t.pageIndex + 1
           s == t.stepIndexInPage + 1
           b == [Board EXCEPT
                   !.timers = Remove(timers, NextTimer),
                   !.currentSlideIndex = IF t.stepIndexInPage = 0 THEN t.pageIndex ELSE @,
                   !.slides = IF p <= Len(slides) /\ s <= Len(slides[p])
                              THEN [slides EXCEPT ![p][s].visible = TRUE]
                              ELSE slides]
       IN  SetBoard(OverlayEffect(b))
    /\ UNCHANGED <<auxVars, app, now, isConnected, audioVars, visualCommandQueueRef,
                   drawVisualCommandRef, offered, sched, dropped, resets, malformed>>

\* the end-of-animation setTimeout callback
EndAnimation ==
    /\ TimerDue("end")
    /\ timers' = Remove(timers, NextTimer)
    /\ isAnimating' = FALSE
    /\ UNCHANGED <<auxVars, app, now, isConnected, audioVars, visualCommandQueueRef,
                   drawVisualCommandRef, activeCommand, slides, currentSlideIndex,
                   controls, realized, offered, sched, dropped, resets, malformed>>

\* the setTimeout callback of a scheduled visual command (v1)
RealizeVisual ==
    /\ TimerDue("visual")
    /\ LET t == timers[NextTimer]
           b == [Board EXCEPT !.timers = Remove(timers, NextTimer)]
       IN  IF drawVisualCommandRef
           THEN SetBoard(OverlayEffect(drawCommand(b, t.q)))
           ELSE SetBoard(b)
    /\ UNCHANGED <<auxVars, app, now, isConnected, audioVars, visualCommandQueueRef,
                   drawVisualCommandRef, offered, sched, dropped, resets, malformed>>

\* mutant of prevBtn: never disabled, and no clamp
prevBtnUnclamped ==
    /\ controls.shown
    /\ LET b == [Board EXCEPT !.currentSlideIndex = controls.idx - 1]
       IN  SetBoard(OverlayEffect(b))
    /\ UNCHANGED <<auxVars, app, now, isConnected, audioVars, visualCommandQueueRef,
                   drawVisualCommandRef, offered, sched, dropped, resets, malformed>>

\* Back button: setCurrentSlideIndex(Math.max(0, currentSlideIndex - 1))
prevBtn ==
    /\ controls.shown
    /\ controls.idx # 0
    /\ LET b == [Board EXCEPT !.currentSlideIndex = Max(0, controls.idx - 1)]
       IN  SetBoard(OverlayEffect(b))
    /\ UNCHANGED <<auxVars, app, now, isConnected, audioVars, visualCommandQueueRef,
                   drawVisualCommandRef, offered, sched, dropped, resets, malformed>>

\* mutant of nextBtn: going to a page also drops the pending timers
nextBtnCancels ==
    /\ controls.shown
    /\ controls.idx # controls.len - 1
    /\ LET b == [Board EXCEPT !.currentSlideIndex = Min(controls.len - 1, controls.idx + 1),
                              !.timers = <<>>]
       IN  SetBoard(OverlayEffect(b))
    /\ UNCHANGED <<auxVars, app, now, isConnected, audioVars, visualCommandQueueRef,
                   drawVisualCommandRef, offered, sched, dropped, resets, malformed>>

\* Next button: setCurrentSlideIndex(Math.min(slides.length - 1, currentSlideIndex + 1))
nextBtn ==
    /\ controls.shown
    /\ controls.idx # controls.len - 1
    /\ LET b == [Board EXCEPT !.currentSlideIndex = Min(controls.len - 1, controls.idx + 1)]
       IN  SetBoard(OverlayEffect(b))
    /\ UNCHANGED <<auxVars, app, now, isConnected, audioVars, visualCommandQueueRef,
                   drawVisualCommandRef, offered, sched, dropped, resets, malformed>>

\* The instants at which the behaviour can change: a timer falls due, the
\* scheduled audio has run out (the first instant after nextTimeRef), an
\* elapsed-audio threshold of the v1 delay heuristic is crossed.
Instants ==
    { timers[i].due : i \in 1..Len(timers) }
    \cup (IF Len(starts) > 0 THEN {nextTimeRef + 100} ELSE {})
    \cup (IF app = "v1" /\ audioStartTimeRef # null
          THEN {audioStartTimeRef + 500, audioStartTimeRef + 2000}
          ELSE {})

\* the clock advances to the next instant; a due timer fires before it does
Tick ==
    /\ \A i \in 1..Len(timers) : timers[i].due > now
    /\ \E t \in Instants :
        /\ t > now
        /\ \A u \in Instants : u > now => t <= u
        /\ now' = t
    /\ UNCHANGED <<auxVars, app, isConnected, audioVars, visualCommandQueueRef,
                   drawVisualCommandRef, boardVars, offered, sched, dropped, resets, malformed>>

Init ==
    /\ app \in {"v1", "v2"}
    /\ now = 0
    /\ isConnected = FALSE
    /\ audioCtxRef = FALSE
    /\ nextTimeRef = 0
    /\ audioStartTimeRef = null
    /\ visualCommandQueueRef = <<>>
    /\ drawVisualCommandRef = FALSE
    /\ timers = <<>>
    /\ activeCommand = NoCmd
    /\ slides = <<>>
    /\ currentSlideIndex = 0
    /\ isAnimating = FALSE
    /\ controls = NoControls
    /\ offered = 0
    /\ sched = <<>>
    /\ realized = <<>>
    /\ dropped = {}
    /\ starts = <<>>
    /\ resets = 0
    /\ malformed = {}
    /\ graph = NoGraph
    /\ bridge = NoBridge
    /\ mic = NoMic

Next ==
    \/ Mount
    \/ Connect
    \/ Status
    \/ Events < MaxEvents /\ resets < MaxResets /\ Disconnect
    \/ \E n \in SampleCounts :
          Events < MaxEvents /\ Len(starts) < MaxChunks /\ playPcmChunk(n)
    \/ \E c \in Cmds :
          Events < MaxEvents /\ offered < MaxOffers /\ scheduleVisualCommand(c)
    \/ RevealStep
    \/ EndAnimation
    \/ RealizeVisual
    \/ prevBtn
    \/ nextBtn
    \/ Tick

Spec == Init /\ [][Next]_vars

\* App alone: the commands received are simple draws, so the board keeps no
\* pages and no reveal timers.
NextApp ==
    \/ Mount
    \/ Connect
    \/ Status
    \/ Events < MaxBurst /\ resets < MaxResets /\ Disconnect
    \/ \E n \in SampleCounts :
          Events < MaxBurst /\ Len(starts) < MaxChunks /\ playPcmChunk(n)
    \/ \E c \in SimpleCmds :
          Events < MaxBurst /\ offered < MaxOffers /\ scheduleVisualCommand(c)
    \/ RealizeVisual
    \/ Tick

SpecApp == Init /\ [][NextApp]_vars

\* Pagination alone: one ANIMATE_SEQUENCE command, with any step list up to
\* MaxSteps steps, waits in the queue of a mounted, connected App; the first
\* audio chunk flushes it.
StepLens  == {8, 20}

\* mutant of stepLength: one more than the string has
stepLengthPadded(stepContent) == Len(stepContent) + 1

\* stepContent.length
stepLength(stepContent) == Len(stepContent)

\* a two-step solution, as text, and the lengths drawCommand reads from it
ExampleSteps == <<"Subtract 5 from both sides", "Divide both sides by 2">>
ExampleLens  == [i \in 1..Len(ExampleSteps) |-> stepLength(ExampleSteps[i])]

StepLists == UNION { [1..n -> StepLens] : n \in 0..MaxSteps } \cup {ExampleLens}

InitPaginate ==
    /\ app \in {"v1", "v2"}
    /\ now = 0
    /\ isConnected = TRUE
    /\ audioCtxRef = FALSE
    /\ nextTimeRef = 0
    /\ audioStartTimeRef = null
    /\ \E st \in StepLists :
         visualCommandQueueRef = <<[id |-> 1, cmd |-> [type |-> "ANIMATE_SEQUENCE", steps |-> st]]>>
    /\ drawVisualCommandRef = TRUE
    /\ timers = <<>>
    /\ activeCommand = NoCmd
    /\ slides = <<>>
    /\ currentSlideIndex = 0
    /\ isAnimating = FALSE
    /\ controls = NoControls
    /\ offered = 1
    /\ sched = <<[via |-> "queue", batch |-> 0, index |-> 0, delay |-> 0]>>
    /\ realized = <<>>
    /\ dropped = {}
    /\ starts = <<>>
    /\ resets = 0
    /\ malformed = {}
    /\ graph = NoGraph
    /\ bridge = NoBridge
    /\ mic = NoMic

NextPaginate ==
    \/ \E n \in SampleCounts : Len(starts) < 1 /\ playPcmChunk(n)
    \/ RealizeVisual
    \/ RevealStep
    \/ EndAnimation
    \/ prevBtn
    \/ nextBtn
    \/ Tick

SpecPaginate == InitPaginate /\ [][NextPaginate]_vars

\* The same for the step lists of up to MaxLiveSteps steps, with the
\* browser's guarantees: a timer whose delay has elapsed runs, and the clock
\* advances.
InitLive ==
    /\ app \in {"v1", "v2"}
    /\ now = 0
    /\ isConnected = TRUE
    /\ audioCtxRef = FALSE
    /\ nextTimeRef = 0
    /\ audioStartTimeRef = null
    /\ \E n \in 0..MaxLiveSteps : \E st \in [1..n -> StepLens] :
         visualCommandQueueRef = <<[id |-> 1, cmd |-> [type |-> "ANIMATE_SEQUENCE", steps |-> st]]>>
    /\ drawVisualCommandRef = TRUE
    /\ timers = <<>>
    /\ activeCommand = NoCmd
    /\ slides = <<>>
    /\ currentSlideIndex = 0
    /\ isAnimating = FALSE
    /\ controls = NoControls
    /\ offered = 1
    /\ sched = <<[via |-> "queue", batch |-> 0, index |-> 0, delay |-> 0]>>
    /\ realized = <<>>
    /\ dropped = {}
    /\ starts = <<>>
    /\ resets = 0
    /\ malformed = {}
    /\ graph = NoGraph
    /\ bridge = NoBridge
    /\ mic = NoMic

SpecLive ==
    /\ InitLive
    /\ [][NextPaginate]_vars
    /\ WF_vars(Tick)
    /\ WF_vars(RevealStep)
    /\ WF_vars(EndAnimation)
    /\ WF_vars(RealizeVisual)

\* Decoding: the chunks received are any of Payloads, well formed or not.
NextDecode ==
    \/ Mount
    \/ Connect
    \/ Events < MaxEvents /\ resets < MaxResets /\ Disconnect
    \/ \E p \in Payloads :
          /\ Events < MaxEvents
          /\ Len(starts) < MaxChunks
          /\ Decodes(p)
          /\ playPcmChunk(sampleCount(p))
    \/ \E p \in Payloads :
          Cardinality(malformed) < MaxMalformed /\ playPcmChunkThrows(p)
    \/ \E c \in SimpleCmds :
          Events < MaxEvents /\ offered < MaxOffers /\ scheduleVisualCommand(c)
    \/ RealizeVisual
    \/ Tick

SpecDecode == Init /\ [][NextDecode]_vars

\* Two ANIMATE_SEQUENCE commands back to back: both wait in the queue of a
\* mounted, connected App, each with up to MaxPairSteps steps of 8
\* characters; the first audio chunk flushes them.
PairLists == UNION { [1..n -> {8}] : n \in 0..MaxPairSteps }

InitPair ==
    /\ app \in {"v1", "v2"}
    /\ now = 0
    /\ isConnected = TRUE
    /\ audioCtxRef = FALSE
    /\ nextTimeRef = 0
    /\ audioStartTimeRef = null
    /\ \E s1 \in PairLists : \E s2 \in PairLists :
         visualCommandQueueRef =
            <<[id |-> 1, cmd |-> [type |-> "ANIMATE_SEQUENCE", steps |-> s1]],
              [id |-> 2, cmd |-> [type |-> "ANIMATE_SEQUENCE", steps |-> s2]]>>
    /\ drawVisualCommandRef = TRUE
    /\ timers = <<>>
    /\ activeCommand = NoCmd
    /\ slides = <<>>
    /\ currentSlideIndex = 0
    /\ isAnimating = FALSE
    /\ controls = NoControls
    /\ offered = 2
    /\ sched = <<[via |-> "queue", batch |-> 0, index |-> 0, delay |-> 0],
                 [via |-> "queue", batch |-> 0, index |-> 0, delay |-> 0]>>
    /\ realized = <<>>
    /\ dropped = {}
    /\ starts = <<>>
    /\ resets = 0
    /\ malformed = {}
    /\ graph = NoGraph
    /\ bridge = NoBridge
    /\ mic = NoMic

SpecPair == InitPair /\ [][NextPaginate]_vars

\* ------------------------------------------------------------ drawGraph
\* What evaluating the expression at one sample does: it throws, or it
\* returns NaN or an infinity, or it returns the number y.
Outcomes ==
    {[kind |-> "throws", y |-> 0], [kind |-> "nonfinite", y |-> 0]}
    \cup { [kind |-> "value", y |-> v] : v \in {0 - 150, 4, 99, 100} }

\* the function parseFunction returns: try { return fn(x, Math) }
\* catch (e) { return 0 }
func(o) == IF o.kind = "throws" THEN [kind |-> "value", y |-> 0] ELSE o

isFinite(y) == y.kind = "value"
Abs(n) == IF n < 0 THEN 0 - n ELSE n

\* the sampling loop: points.push for the samples that pass the test.  func
\* never throws, so the loop's own catch is never entered.  A point keeps
\* the index of its sample.
RECURSIVE SamplePoints(_, _)
SamplePoints(samples, i) ==
    IF i > Len(samples) THEN <<>>
    ELSE LET y == func(samples[i])
         IN  (IF isFinite(y) /\ Abs(y.y) < 100
              THEN <<[i |-> i, y |-> y.y]>>
              ELSE <<>>) \o SamplePoints(samples, i + 1)

\* moveTo(points[0]); lineTo(points[1]) ... lineTo(points[n - 1]): the
\* segments stroked, each as the pair of sample indices it joins
Stroke(points, n) == [k \in 1..(n - 1) |-> <<points[k].i, points[k + 1].i>>]

\* drawGraph(cmd, ctx, canvas, overlay, animated)
drawGraph(samples, animated) ==
    /\ graph.phase = "none"
    /\ LET points == SamplePoints(samples, 1)
       IN  graph' = [phase    |-> IF animated THEN "animating" ELSE "drawn",
                     samples  |-> samples,
                     animated |-> animated,
                     points   |-> points,
                     frame    |-> 0,
                     segments |-> IF animated THEN <<>>
                                  ELSE Stroke(points, Len(points))]
    /\ UNCHANGED <<clientVars, bridge, mic>>

\* a frame of the animation, at progress p / MaxFrames: the graph area is
\* cleared and the first floor(progress * totalPoints) points are joined
animate(p) ==
    /\ graph.phase = "animating"
    /\ p > graph.frame
    /\ LET currentIndex == (p * Len(graph.points)) \div MaxFrames
       IN  graph' = [graph EXCEPT
                       !.frame = p,
                       !.segments = IF currentIndex > 0
                                    THEN Stroke(graph.points, currentIndex)
                                    ELSE <<>>,
                       !.phase = IF p < MaxFrames THEN "animating" ELSE "drawn"]
    /\ UNCHANGED <<clientVars, bridge, mic>>

SampleLists == UNION { [1..n -> Outcomes] : n \in 1..MaxSamples }

NextGraph ==
    \/ \E samples \in SampleLists : \E animated \in BOOLEAN :
          drawGraph(samples, animated)
    \/ \E p \in 1..MaxFrames : animate(p)

SpecGraph == Init /\ [][NextGraph]_vars

\* ----------------------------------------------------- GeminiLiveBridge
\* the messages of the errors the SDK calls reject with
BridgeErrors == {"quota", "network"}
\* what authTokens.create resolves with: a token with a name, or without
TokenResults == {"named", "unnamed"}

\* this.clientSocket.emit('status', { message: prefix + text })
Emit(b, prefix, text) ==
    [b EXCEPT !.statuses = Append(@, [prefix |-> prefix, text |-> text])]

\* the catch of connect(): console.error and the 'Connection Error: ' status
ConnectCatch(b, message) ==
    [Emit(b, "Connection Error: ", message) EXCEPT !.pc = "failed"]

\* connect() up to the first await: the token client, retries = 3, the
\* first authTokens.create call
connect ==
    /\ bridge.pc = "idle"
    /\ bridge' = [bridge EXCEPT !.pc = "creating", !.retries = TokenRetries,
                                !.tokenResult = "none"]
    /\ UNCHANGED <<clientVars, graph, mic>>

\* authTokens.create resolves: break; then the name test and, with a name,
\* the call of live.connect
createResolves(r) ==
    /\ bridge.pc = "creating"
    /\ LET b == [bridge EXCEPT !.tokenResult = r, !.attempts = Append(@, "ok")]
       IN  bridge' = IF r = "unnamed"
                     THEN ConnectCatch(b, "Failed to create ephemeral token - no token returned")
                     ELSE [b EXCEPT !.pc = "connecting", !.liveCalls = @ + 1]
    /\ UNCHANGED <<clientVars, graph, mic>>

\* mutant of createRejects: the last failure is retried once more
createRejectsExtra(e) ==
    /\ bridge.pc = "creating"
    /\ LET b == [bridge EXCEPT !.retries = @ - 1, !.attempts = Append(@, e)]
       IN  bridge' = IF b.retries >= 0
                     THEN [b EXCEPT !.pc = "waiting"]
                     ELSE ConnectCatch(b, e)
    /\ UNCHANGED <<clientVars, graph, mic>>

\* authTokens.create rejects: retries--, then the 1 s wait or the rethrow
createRejects(e) ==
    /\ bridge.pc = "creating"
    /\ LET b == [bridge EXCEPT !.retries = @ - 1, !.attempts = Append(@, e)]
       IN  bridge' = IF b.retries > 0
                     THEN [b EXCEPT !.pc = "waiting"]
                     ELSE ConnectCatch(b, e)
    /\ UNCHANGED <<clientVars, graph, mic>>

\* the 1 s wait ends: the loop test retries > 0 && !tokenResult, then the
\* next authTokens.create call, or the name test after the loop
retryWait ==
    /\ bridge.pc = "waiting"
    /\ bridge' = IF bridge.retries > 0 /\ bridge.tokenResult = "none"
                 THEN [bridge EXCEPT !.pc = "creating"]
                 ELSE ConnectCatch(bridge, "Failed to create ephemeral token - no token returned")
    /\ UNCHANGED <<clientVars, graph, mic>>

\* live.connect resolves: this.session is set
liveResolves ==
    /\ bridge.pc = "connecting"
    /\ bridge' = [bridge EXCEPT !.pc = "open", !.session = TRUE]
    /\ UNCHANGED <<clientVars, graph, mic>>

\* live.connect rejects
liveRejects(e) ==
    /\ bridge.pc = "connecting"
    /\ bridge' = ConnectCatch(bridge, e)
    /\ UNCHANGED <<clientVars, graph, mic>>

\* the onclose callback of the session
onclose ==
    /\ bridge.pc = "open"
    /\ bridge' = Emit(bridge, "Gemini Disconnected", "")
    /\ UNCHANGED <<clientVars, graph, mic>>

\* the onerror callback of the session
onerror(e) ==
    /\ bridge.pc = "open"
    /\ bridge' = Emit(bridge, "Gemini Error: ", e)
    /\ UNCHANGED <<clientVars, graph, mic>>

NextBridge ==
    \/ connect
    \/ \E r \in TokenResults : createResolves(r)
    \/ \E e \in BridgeErrors : createRejects(e)
    \/ retryWait
    \/ liveResolves
    \/ \E e \in BridgeErrors : liveRejects(e)
    \/ Len(bridge.statuses) < MaxStatuses /\ onclose
    \/ \E e \in BridgeErrors : Len(bridge.statuses) < MaxStatuses /\ onerror(e)

SpecBridge == Init /\ [][NextBridge]_vars

\* ------------------------------------------------------- useAudioStream
\* A capture is the stream of one getUserMedia call with the processor
\* connected to it; it carries the number of the startRecording call.

\* startRecording up to its await: getUserMedia is called.  The user has
\* started the mic.
startRecording ==
    mic' = [mic EXCEPT !.calls = @ + 1, !.pending = @ \cup {mic.calls + 1},
                       !.stopped = FALSE]

\* stopRecording: the processor, context and stream the refs hold are shut
stopRecording ==
    mic' = [mic EXCEPT !.isRecordingRef = FALSE,
                       !.running = @ \ {mic.processorRef, mic.streamRef},
                       !.processorRef = 0,
                       !.streamRef = 0,
                       !.isRecording = FALSE,
                       !.stopped = TRUE]

\* the Start Mic / Stop Mic button
toggleMic ==
    /\ IF mic.isRecording THEN stopRecording
       ELSE mic.calls < MaxMicStarts /\ startRecording
    /\ UNCHANGED <<clientVars, graph, bridge>>

\* getUserMedia resolves: the rest of startRecording
getUserMediaResolves(id) ==
    /\ id \in mic.pending
    /\ mic' = [mic EXCEPT !.pending = @ \ {id},
                          !.streamRef = id,
                          !.processorRef = id,
                          !.running = @ \cup {id},
                          !.isRecordingRef = TRUE,
                          !.isRecording = TRUE]
    /\ UNCHANGED <<clientVars, graph, bridge>>

\* getUserMedia rejects: the catch of startRecording
getUserMediaRejects(id) ==
    /\ id \in mic.pending
    /\ mic' = [mic EXCEPT !.pending = @ \ {id}]
    /\ UNCHANGED <<clientVars, graph, bridge>>

\* processor.onaudioprocess of a running capture, with the ref set:
\* socket.emit('audio-input', pcmData)
onaudioprocess(id) ==
    /\ id \in mic.running
    /\ mic.isRecordingRef
    /\ mic' = [mic EXCEPT !.emitted = @ + 1]
    /\ UNCHANGED <<clientVars, graph, bridge>>

NextMic ==
    \/ toggleMic
    \/ \E id \in 1..MaxMicStarts : getUserMediaResolves(id)
    \/ \E id \in 1..MaxMicStarts : getUserMediaRejects(id)
    \/ \E id \in 1..MaxMicStarts : mic.emitted < MaxAudioInputs /\ onaudioprocess(id)

SpecMic == Init /\ [][NextMic]_vars

\* ------------------------------------------------------------- properties
Realized(id) == \E i \in 1..Len(realized) : realized[i] = id
Pos(id)      == CHOOSE i \in 1..Len(realized) : realized[i] = id

\* C1: the scheduled start of every chunk is no earlier than the scheduled
\* start of the chunk before it plus that chunk's duration (no overlap).
C1_TimelineMonotone ==
    \A i \in 1..(Len(starts) - 1) :
        starts[i + 1].start >= starts[i].start + starts[i].dur

\* two chunks, the second enqueued after the first had played out
C1_Witness ==
    /\ Len(starts) >= 2
    /\ starts[2].start > starts[1].start + starts[1].dur

\* C2: commands queued while there is no timeline and flushed by the same
\* audio chunk are realized in queue order, and the delay scheduled for each
\* is no less than the delay scheduled for the one queued before it.
SameFlush(x, y) ==
    /\ sched[x].via = "flush"
    /\ sched[y].via = "flush"
    /\ sched[x].batch = sched[y].batch

C2_FlushKeepsOrder ==
    \A x, y \in 1..Len(sched) :
        (x < y /\ SameFlush(x, y)) =>
            /\ sched[x].delay <= sched[y].delay
            /\ Realized(y) => (Realized(x) /\ Pos(x) < Pos(y))

\* A, B, C flushed together by the timers of v1, all three drawn
C2_Witness ==
    /\ app = "v1"
    /\ Len(sched) >= 3
    /\ SameFlush(1, 2) /\ SameFlush(2, 3)
    /\ realized = <<1, 2, 3>>

\* C3: a command that was in the queue at a disconnect is never realized.
C3_DroppedNeverRealized ==
    \A id \in dropped : ~Realized(id)

\* a command was dropped, a later chunk set up a new timeline and a command
\* received after the disconnect was drawn
C3_Witness ==
    /\ dropped # {}
    /\ audioStartTimeRef # null
    /\ \E id \in Range(realized) : \A d \in dropped : id > d

\* C4: a command received while audioStartTimeRef is null is appended to the
\* queue and not drawn by that call, and a queued command is drawn only by a
\* step that leaves a timeline established.
C4_QueuedWaitsForAudio ==
    [][ /\ \A c \in Cmds :
            (scheduleVisualCommand(c) /\ audioStartTimeRef = null) =>
                /\ visualCommandQueueRef' =
                       Append(visualCommandQueueRef, [id |-> offered + 1, cmd |-> c])
                /\ realized' = realized
        /\ \A i \in 1..Len(visualCommandQueueRef) :
            visualCommandQueueRef[i].id \in Range(realized') => audioStartTimeRef' # null
      ]_vars

C6_ArrivalOrder ==
    \A i, j \in 1..Len(realized) : i < j => realized[i] < realized[j]

\* C7: while no other command is drawn, a step whose visible flag is set
\* keeps it set.
C7_RevealedStays ==
    [][ realized' = realized =>
            \A p \in 1..Len(slides) : \A s \in 1..Len(slides[p]) :
                slides[p][s].visible =>
                    /\ p <= Len(slides')
                    /\ s <= Len(slides'[p])
                    /\ slides'[p][s].visible
      ]_vars

\* the fourth step was revealed (which shows its page) and the user went back
C7_Witness ==
    /\ Len(slides) = 2
    /\ slides[2][1].visible
    /\ currentSlideIndex = 0

\* C8: a step is visible only if the step before it is visible.
C8_RevealInOrder ==
    \A p \in 1..Len(slides) : \A s \in 1..Len(slides[p]) :
        slides[p][s].visible =>
            /\ s > 1 => slides[p][s - 1].visible
            /\ (s = 1 /\ p > 1) => slides[p - 1][Len(slides[p - 1])].visible

\* the step texts of the pages, in order
RECURSIVE Contents(_)
Contents(pages) ==
    IF pages = <<>> THEN <<>>
    ELSE [j \in 1..Len(Head(pages)) |-> Head(pages)[j].content] \o Contents(Tail(pages))

\* C9: the pages of a drawn sequence of n steps are ceil(n/3) pages of at
\* most 3 steps, all but the last of exactly 3, which concatenated are the
\* steps; 7 steps give pages of 3, 3 and 1 steps.
C9_Pagination ==
    activeCommand.type = "ANIMATE_SEQUENCE" =>
        LET steps == activeCommand.steps
            n     == Len(steps)
        IN  /\ Len(slides) = (n + 2) \div 3
            /\ \A p \in 1..Len(slides) :
                /\ Len(slides[p]) \in 1..3
                /\ p < Len(slides) => Len(slides[p]) = 3
            /\ Contents(slides) = steps
            /\ n = 7 => [p \in 1..Len(slides) |-> Len(slides[p])] = <<3, 3, 1>>

\* a sequence of 7 steps of both lengths has been drawn
C9_Witness ==
    /\ activeCommand.type = "ANIMATE_SEQUENCE"
    /\ Len(activeCommand.steps) = 7
    /\ Range(activeCommand.steps) = StepLens
    /\ Len(slides) = 3

\* C10: Back and Next change the page shown and nothing else: no visible
\* flag, no pending timer, not isAnimating; and a reveal timer fires at the
\* instant it was set for, whichever page is shown.
C10_NavigationFrame ==
    [][ /\ (prevBtn \/ nextBtn) =>
            /\ slides' = slides
            /\ timers' = timers
            /\ isAnimating' = isAnimating
            /\ now' = now
        /\ RevealStep => timers[NextTimer].due = now
      ]_vars

\* the user went to the second page before its first step was due, and the
\* second step of the first page was revealed meanwhile
C10_Witness ==
    /\ Len(slides) = 2
    /\ currentSlideIndex = 1
    /\ slides[1][2].visible
    /\ ~slides[2][1].visible

\* C11: when a command that is not a sequence is drawn while the board holds
\* pages, the state right after the draw has no pages and isAnimating FALSE.
C11_PreemptClears ==
    [][ (/\ realized' # realized
         /\ activeCommand'.type # "ANIMATE_SEQUENCE"
         /\ Len(slides) > 0)
        => (Len(slides') = 0 /\ isAnimating' = FALSE)
      ]_vars

\* C12: once a command that is not a sequence has replaced a staged solution,
\* the callbacks left over from the solution change neither the visible
\* flags, nor the page shown, nor isAnimating.
C12_PreemptCancelsTimers ==
    [][ (/\ RevealStep \/ EndAnimation
         /\ activeCommand.type \in {"DRAW_GRAPH", "DRAW_SHAPE", "DRAW_TEXT"})
        => (/\ slides' = slides
            /\ currentSlideIndex' = currentSlideIndex
            /\ isAnimating' = isAnimating)
      ]_vars

\* C13: a disconnect cancels the pending reveal callbacks of the solution on
\* the board: none of them is still pending after it.
C13_ResetCancelsReveals ==
    [][ Disconnect =>
            \A i \in 1..Len(timers') :
                ~(timers'[i].kind = "reveal" /\ timers'[i].gen = Len(realized'))
      ]_vars

\* C14: the first chunk played since a disconnect (or since the start) sets
\* audioStartTimeRef and its own start to the clock plus the cushion,
\* whatever nextTimeRef held.
C14_FirstChunkAtClock ==
    [][ \A n \in SampleCounts :
            (playPcmChunk(n) /\ audioStartTimeRef = null) =>
                /\ audioStartTimeRef' = now + lookaheadOffset
                /\ starts'[Len(starts')].start = now + lookaheadOffset
      ]_vars

\* C15: a chunk played when nextTimeRef is behind the clock starts at the
\* clock plus the cushion, and no chunk starts before the clock time at which
\* it was played.
C15_CatchUp ==
    [][ \A n \in SampleCounts :
            playPcmChunk(n) =>
                /\ nextTimeRef < now => starts'[Len(starts')].start = now + lookaheadOffset
                /\ starts'[Len(starts')].start >= now
      ]_vars

\* the last chunk was played after the one before it had run out, and
\* starts at the clock plus the cushion
C15_Witness ==
    /\ Len(starts) >= 2
    /\ starts[Len(starts) - 1].start + starts[Len(starts) - 1].dur < now
    /\ starts[Len(starts)].start = now + lookaheadOffset

\* C16: the disconnect handler sets audioStartTimeRef to null, nextTimeRef
\* to 0 and empties the queue.
C16_ResetClearsTimeline ==
    [][ Disconnect =>
            /\ audioStartTimeRef' = null
            /\ nextTimeRef' = 0
            /\ visualCommandQueueRef' = <<>>
      ]_vars

\* C17: a chunk that fails to decode leaves nextTimeRef, audioStartTimeRef
\* and the queue as they were and starts nothing, and a well-formed chunk
\* received after it is started as any other: at nextTimeRef after the
\* catch-up, which then advances by its duration.
C17_MalformedSkipped ==
    [][ \A p \in Payloads :
            /\ playPcmChunkThrows(p) =>
                    UNCHANGED <<nextTimeRef, audioStartTimeRef, visualCommandQueueRef, starts>>
            /\ (malformed # {} /\ Decodes(p) /\ playPcmChunk(sampleCount(p))) =>
                    /\ starts' = Append(starts, [start |-> CatchUp(nextTimeRef),
                                                 dur |-> chunkDuration(sampleCount(p))])
                    /\ nextTimeRef' = CatchUp(nextTimeRef) + chunkDuration(sampleCount(p))
                    /\ audioStartTimeRef' # null
      ]_vars

\* a chunk failed to decode and a chunk received after it was started
C17_Witness ==
    \E k \in malformed : Len(starts) > k

\* where a command is: the number of entries of queue q, of pending timers
\* of t and of draws of r that carry its id, plus one if it is in d, the
\* commands discarded by a disconnect
InQueue(q, id) == Cardinality({ i \in 1..Len(q) : q[i].id = id })
OnTimer(t, id) == Cardinality({ i \in 1..Len(t) : t[i].kind = "visual" /\ t[i].q.id = id })
Draws(r, id)   == Cardinality({ i \in 1..Len(r) : r[i] = id })
Discarded(d, id) == IF id \in d THEN 1 ELSE 0

ExactlyOnePlace(q, t, r, d, n) ==
    \A id \in 1..n : InQueue(q, id) + OnTimer(t, id) + Draws(r, id) + Discarded(d, id) = 1

\* C18: an audio chunk leaves the queue empty, and every command that was in
\* the queue is from then on on exactly one timer or drawn exactly once;
\* whatever the interleaving of commands, chunks, disconnects and renders,
\* a command received is in exactly one place: in the queue, on one pending
\* timer, drawn once, or discarded by a disconnect.
C18_FlushExactlyOnce ==
    [][ /\ \A n \in SampleCounts :
            playPcmChunk(n) =>
                /\ visualCommandQueueRef' = <<>>
                /\ \A i \in 1..Len(visualCommandQueueRef) :
                    LET id == visualCommandQueueRef[i].id
                    IN  /\ sched'[id].via = "flush"
                        /\ OnTimer(timers', id) + Draws(realized', id) = 1
        /\ ExactlyOnePlace(visualCommandQueueRef', timers', realized', dropped', offered')
      ]_vars

\* v2: one command was drawn by a registration and a later one by a flush
C18_Witness ==
    /\ visualCommandQueueRef = <<>>
    /\ \E x, y \in 1..Len(sched) :
        /\ sched[x].via = "register" /\ Draws(realized, x) = 1
        /\ sched[y].via = "flush" /\ Draws(realized, y) = 1

\* cumulativeDelay_k as the claim defines it: 300 ms for step 0, then the
\* delay of the step before plus max(400, 25 * its length)
RECURSIVE Offset(_, _)
Offset(steps, k) ==
    IF k = 0 THEN 300
    ELSE Offset(steps, k - 1) + (IF steps[k] * 25 > 400 THEN steps[k] * 25 ELSE 400)

C20_NavigationClamped ==
    [][ /\ (prevBtn /\ Len(slides) >= 1) => currentSlideIndex' = currentSlideIndex - 1
        /\ (nextBtn /\ Len(slides) >= 1) => currentSlideIndex' = currentSlideIndex + 1
        /\ Len(slides') >= 1 => currentSlideIndex' \in 0..(Len(slides') - 1)
        /\ (Len(slides) >= 1 /\ currentSlideIndex > 0) => ENABLED prevBtn
        /\ (Len(slides) >= 1 /\ currentSlideIndex < Len(slides) - 1) => ENABLED nextBtn
      ]_vars

\* the user has gone to the third page while the animation runs and before
\* any step of that page is revealed
C20_Witness ==
    /\ isAnimating
    /\ Len(slides) = 3
    /\ currentSlideIndex = 2
    /\ ~slides[3][1].visible

AllVisible ==
    \A p \in 1..Len(slides) : \A s \in 1..Len(slides[p]) : slides[p][s].visible

\* C21: once a sequence is drawn and nothing else arrives, every step of it
\* ends up visible and isAnimating ends up FALSE, whatever Back and Next
\* clicks happen on the way.
C21_AllRevealed ==
    (activeCommand.type = "ANIMATE_SEQUENCE") ~> (AllVisible /\ ~isAnimating)

\* all four steps are visible, the animation is over and the user is on
\* the first page
C21_Witness ==
    /\ activeCommand.type = "ANIMATE_SEQUENCE"
    /\ Len(activeCommand.steps) = 4
    /\ AllVisible
    /\ ~isAnimating
    /\ currentSlideIndex = 0

\* C22: the draw of a command that is not a sequence leaves nothing of what
\* was shown before; in particular the overlay holds no page controls of a
\* solution it replaced.
C22_PreemptClearsOverlay ==
    [][ (/\ realized' # realized
         /\ activeCommand'.type \in {"DRAW_GRAPH", "DRAW_SHAPE", "DRAW_TEXT"})
        => ~controls'.shown
      ]_vars

C24_BackToBack ==
    [][ \A n \in SampleCounts :
            (/\ playPcmChunk(n)
             /\ Len(starts) >= 1
             /\ now <= starts[Len(starts)].start + starts[Len(starts)].dur)
            => starts' = Append(starts,
                                [start |-> starts[Len(starts)].start + starts[Len(starts)].dur,
                                 dur |-> chunkDuration(n)])
      ]_vars

\* two chunks of different lengths, the second starting where the first ends
C24_Witness ==
    /\ Len(starts) >= 2
    /\ starts[1].dur # starts[2].dur
    /\ starts[2].start = starts[1].start + starts[1].dur

\* the delay the claim gives for an audio elapsed of e ms
HeuristicDelay(e) == IF e < 500 THEN 1000 ELSE IF e < 2000 THEN 500 ELSE 800

C27_RevealSwitchesPage ==
    [][ RevealStep => currentSlideIndex' = timers[NextTimer].pageIndex ]_vars

\* C28: the draw of a sequence replaces the pages by the pages of the new
\* steps, none of them visible, shows page 0 and sets isAnimating.
C28_SequenceResets ==
    [][ (realized' # realized /\ activeCommand'.type = "ANIMATE_SEQUENCE") =>
            /\ slides' = Paginate(activeCommand'.steps, 0)
            /\ \A p \in 1..Len(slides') : \A k \in 1..Len(slides'[p]) :
                   ~slides'[p][k].visible
            /\ Len(slides') = (Len(activeCommand'.steps) + 2) \div 3
            /\ currentSlideIndex' = 0
            /\ isAnimating'
      ]_vars

\* a second sequence has just been drawn while a reveal timer of an earlier
\* one is still pending
C28_Witness ==
    /\ Len(realized) >= 2
    /\ activeCommand.type = "ANIMATE_SEQUENCE"
    /\ isAnimating
    /\ currentSlideIndex = 0
    /\ Len(slides) = 2
    /\ \A p \in 1..Len(slides) : \A k \in 1..Len(slides[p]) : ~slides[p][k].visible
    /\ \E i \in 1..Len(timers) :
         timers[i].kind = "reveal" /\ timers[i].gen < Len(realized)

ExampleSchedule(r0, r1, e) ==
    /\ (realized' # realized /\ activeCommand'.steps = ExampleLens) =>
        /\ { timers'[i].due - now :
               i \in { j \in 1..Len(timers') :
                         /\ timers'[j].kind = "reveal"
                         /\ timers'[j].stepIndexInPage = 0 } } = {r0}
        /\ { timers'[i].due - now :
               i \in { j \in 1..Len(timers') :
                         /\ timers'[j].kind = "reveal"
                         /\ timers'[j].stepIndexInPage = 1 } } = {r1}
        /\ { timers'[i].due - now :
               i \in { j \in 1..Len(timers') : timers'[j].kind = "end" } } = {e}
    /\ (activeCommand.steps = ExampleLens /\ (RevealStep \/ EndAnimation)) =>
        timers[NextTimer].due = now

\* C30 as stated: the two steps of the example are revealed 300 ms and
\* 975 ms after the draw, and isAnimating clears 2575 ms after it.
C30_ExampleAsWritten == [][ExampleSchedule(300, 975, 2575)]_vars

\* C30 amended: the two steps are 26 and 22 characters long; they are
\* revealed 300 ms and 950 ms after the draw, and isAnimating clears 2500 ms
\* after it.
C30_Example == [][ExampleSchedule(300, 950, 2500)]_vars

\* v2: the example was drawn at 0, both steps are visible and the animation
\* ended at 2500
C30_Witness ==
    /\ app = "v2"
    /\ activeCommand.steps = ExampleLens
    /\ Len(ExampleLens) = 2
    /\ AllVisible
    /\ ~isAnimating
    /\ now = 2500

\* C31 as stated: a reveal or end-of-animation callback of a sequence that a
\* newer sequence has replaced changes neither the visible flags, nor the
\* page shown, nor isAnimating.
C31_StaleCallbacksInert ==
    [][ (/\ RevealStep \/ EndAnimation
         /\ timers[NextTimer].gen < Len(realized)
         /\ activeCommand.type = "ANIMATE_SEQUENCE")
        => /\ slides' = slides
           /\ currentSlideIndex' = currentSlideIndex
           /\ isAnimating' = isAnimating
      ]_vars

\* C32 as stated: a sample that is not finite, or of magnitude 100 or more,
\* gives no point, and every segment on the canvas joins two samples that
\* are next to each other in the sampling sequence.
C32_GapsAtOmitted ==
    graph.phase # "none" =>
        /\ \A k \in 1..Len(graph.points) :
              LET o == graph.samples[graph.points[k].i]
              IN  o.kind # "nonfinite" /\ (o.kind = "value" => Abs(o.y) < 100)
        /\ \A k \in 1..Len(graph.segments) :
              graph.segments[k][2] = graph.segments[k][1] + 1

\* C33 as stated: a sample at which the evaluation throws gives no point, and
\* the samples after it are still taken.
C33_ThrowOmitted ==
    graph.phase # "none" =>
        /\ \A k \in 1..Len(graph.points) :
              graph.samples[graph.points[k].i].kind # "throws"
        /\ \A i \in 1..Len(graph.samples) :
              (graph.samples[i].kind = "value" /\ Abs(graph.samples[i].y) < 100)
                  => \E k \in 1..Len(graph.points) : graph.points[k].i = i

\* C34 as stated: whenever there is at least one page, the page index is one
\* of 0 .. pageCount - 1.
C34_PageIndexInRange ==
    Len(slides) > 0 => (0 <= currentSlideIndex /\ currentSlideIndex < Len(slides))

\* C35 as stated: isAnimating is set as long as a reveal timer of the active
\* sequence is pending.
C35_AnimatingWhileRevealsPending ==
    (/\ activeCommand.type = "ANIMATE_SEQUENCE"
     /\ \E i \in 1..Len(timers) :
           timers[i].kind = "reveal" /\ timers[i].gen = Len(realized))
    => isAnimating

\* C36: whenever audioStartTimeRef is set, between handlers, the visual
\* command queue is empty.
C36_QueueEmptyWhileAudio ==
    audioStartTimeRef # null => visualCommandQueueRef = <<>>

\* audio has started, two commands that had waited in the queue were taken
\* out of it by the flush and one more was received after it
C36_Witness ==
    /\ audioStartTimeRef # null
    /\ visualCommandQueueRef = <<>>
    /\ Cardinality({ i \in 1..Len(sched) : sched[i].via = "flush" }) = 2
    /\ \E j \in 1..Len(sched) : sched[j].via = "offer"

\* C37 as stated: a command whose timer was started before a disconnect and
\* has not fired by then is not drawn after it.  No timer is started while
\* the socket is disconnected, so a visual timer that fires then was started
\* before the disconnect: it must draw nothing.
C37_ResetCancelsVisualTimers ==
    [][ (RealizeVisual /\ resets > 0 /\ ~isConnected) => realized' = realized ]_vars

\* C38: connect() makes at most 3 calls of authTokens.create and none after
\* one that resolved; when the third has failed too, live.connect has not
\* been called, there is no session, and exactly one status has been
\* emitted, which begins with 'Connection Error: '.
C38_TokenRetry ==
    LET n == Len(bridge.attempts)
    IN  /\ n <= 3
        /\ \A i \in 1..(n - 1) : bridge.attempts[i] # "ok"
        /\ (bridge.pc \in {"creating", "waiting"}) => (n < 3 /\ bridge.statuses = <<>>)
        /\ (n = 3 /\ bridge.attempts[3] # "ok") =>
              /\ bridge.pc = "failed"
              /\ bridge.liveCalls = 0
              /\ ~bridge.session
              /\ Len(bridge.statuses) = 1
              /\ bridge.statuses[1].prefix = "Connection Error: "

\* three calls failed, the first and the last for different reasons, and the
\* client was told the last reason
C38_Witness ==
    /\ Len(bridge.attempts) = 3
    /\ \A i \in 1..3 : bridge.attempts[i] \in BridgeErrors
    /\ bridge.attempts[1] # bridge.attempts[3]
    /\ bridge.pc = "failed"
    /\ bridge.statuses = <<[prefix |-> "Connection Error: ", text |-> bridge.attempts[3]]>>

\* C39 as stated: at most one capture is running at any time, and no
\* 'audio-input' is emitted after stopRecording until the user starts the mic
\* again.
C39_OneCapture ==
    [][ /\ Cardinality(mic'.running) <= 1
        /\ (mic'.emitted # mic.emitted) => ~mic.stopped
      ]_vars

====
